---------------------------- MODULE Spec2Model ----------------------------
(***************************************************************************)
(* Model of src/storage/mvcc/lock.rs: the MVCC lock record, its binary     *)
(* codec (Lock::to_bytes / Lock::parse), the wire descriptor conversion    *)
(* (Lock::into_lock_info) and the read-side conflict rule                  *)
(* (Lock::check_ts_conflict).                                              *)
(*                                                                         *)
(* Bytes are naturals in 0..255.  A u64 is a sequence of four 16-bit       *)
(* limbs, so that the whole 64-bit range (u64::MAX and ten-byte varints    *)
(* included) is representable.                                             *)
(***************************************************************************)
EXTENDS Naturals, Sequences, FiniteSets, TLC

VARIABLES
    lock,          \* the Lock value operated on
    buf,           \* the byte buffer handed to Lock::parse
    origin,        \* how buf was produced
    res,           \* what Lock::parse returned
    key,           \* check_ts_conflict's key argument (an encoded Key)
    read_ts,       \* check_ts_conflict's ts argument
    bypass_locks,  \* check_ts_conflict's bypass_locks argument
    cres,          \* what check_ts_conflict returned
    raw_key,       \* into_lock_info's raw_key argument
    info           \* what into_lock_info returned

vars == <<lock, buf, origin, res, key, read_ts, bypass_locks, cres, raw_key, info>>

codec_vars == <<lock, buf, origin, res>>
conflict_vars == <<key, read_ts, bypass_locks, cres, raw_key, info>>

-----------------------------------------------------------------------------
(* Bounds of the model.                                                    *)

\* primaries of every length 0..MaxPrimaryLen are tried
MaxPrimaryLen == 2
\* short values of every length 0..MaxShortValueLen are tried
MaxShortValueLen == 2

-----------------------------------------------------------------------------
(* u64 arithmetic.  A u64 is four 16-bit limbs, most significant first:   *)
(* <<0, 0, 0, 300>> is 300 and <<65535, 65535, 65535, 65535>> is u64::MAX. *)

Limbs == 1..4
LimbBase == 65536

Pow2(k) == 2 ^ k

\* the u64 with value n, for n < 2^31
U64(n) == <<0, 0, n \div LimbBase, n % LimbBase>>

U64Zero == <<0, 0, 0, 0>>

\* std::u64::MAX
U64Max == <<65535, 65535, 65535, 65535>>

\* 2^k as a u64, 0 <= k <= 63
U64Bit(k) == [i \in Limbs |-> IF i = 4 - (k \div 16) THEN Pow2(k % 16) ELSE 0]

\* v >> k, for 0 < k < 16: every limb takes the low k bits of the limb above
Shr(v, k) ==
    [i \in Limbs |->
        (v[i] \div Pow2(k)) + (IF i = 1 THEN 0 ELSE (v[i - 1] % Pow2(k)) * Pow2(16 - k))]

\* !v
BitNot(v) == [i \in Limbs |-> 65535 - v[i]]

\* acc | (b << k) for a value b < 128 and 0 <= k <= 63, where the bits k..k+6
\* of acc are still zero, so that | adds; bits shifted beyond bit 63 are lost
OrShifted(acc, b, k) ==
    LET wide == b * Pow2(k % 16)
        at == 4 - (k \div 16)
    IN [i \in Limbs |->
           IF i = at THEN acc[i] + (wide % LimbBase)
           ELSE IF i = at - 1 THEN acc[i] + (wide \div LimbBase)
           ELSE acc[i]]

\* a > b
U64Gt(a, b) == \E i \in Limbs : /\ a[i] > b[i]
                                /\ \A j \in Limbs : j < i => a[j] = b[j]

\* v as usize against a buffer length: TRUE iff v <= n  (n < 2^31)
U64LeNat(v, n) == /\ v[1] = 0
                  /\ v[2] = 0
                  /\ v[3] < 32768
                  /\ v[3] * LimbBase + v[4] <= n

\* the value of a v known to be below 2^31
U64ToNat(v) == v[3] * LimbBase + v[4]

-----------------------------------------------------------------------------
(* Options and results.                                                    *)

None == [some |-> FALSE, val |-> <<>>]
Some(v) == [some |-> TRUE, val |-> v]


\* outcome of a primitive decoder: the value and the unread rest, or an error
DecOk(v, rest) == [ok |-> TRUE, val |-> v, rest |-> rest, err |-> ""]
DecErr(e) == [ok |-> FALSE, val |-> <<>>, rest |-> <<>>, err |-> e]

Min(a, b) == IF a <= b THEN a ELSE b

\* the bytes of s after the first n
Drop(s, n) == SubSeq(s, n + 1, Len(s))

-----------------------------------------------------------------------------
(* tikv_util::codec: the number and byte-sequence primitives the codec     *)
(* calls.                                                                  *)

\* v < 0x80
Below128(v) == v[1] = 0 /\ v[2] = 0 /\ v[3] = 0 /\ v[4] < 128

RECURSIVE encode_var_u64(_)
\* NumberEncoder::encode_var_u64: seven bits per byte, least significant group
\* first, bit 7 set on every byte but the last
encode_var_u64(v) ==
    IF Below128(v)
    THEN <<v[4]>>
    ELSE <<(v[4] % 128) + 128>> \o encode_var_u64(Shr(v, 7))

RECURSIVE DecodeVarLoop(_, _, _)
\* the loop of decode_var_u64: byte i carries bits 7i..7i+6; the tenth byte
\* may only carry bit 63
DecodeVarLoop(data, i, acc) ==
    IF i >= Len(data) THEN DecErr("Codec:UnexpectedEof")
    ELSE LET b == data[i + 1] IN
         IF i < 9
         THEN LET acc2 == OrShifted(acc, b % 128, 7 * i) IN
              IF b < 128 THEN DecOk(acc2, Drop(data, i + 1))
              ELSE DecodeVarLoop(data, i + 1, acc2)
         ELSE IF b <= 1 THEN DecOk(OrShifted(acc, b, 63), Drop(data, 10))
              ELSE DecErr("Codec:Overflow")

\* number::decode_var_u64
decode_var_u64(data) == DecodeVarLoop(data, 0, U64Zero)

\* NumberEncoder::encode_var_i64 of a non-negative length: zigzag, then varint
encode_var_i64(n) == encode_var_u64(U64(2 * n))

\* number::decode_var_i64, the result cast to usize as decode_compact_bytes
\* does: an odd zigzag value is negative and casts to a value >= 2^63
decode_var_i64(data) ==
    LET d == decode_var_u64(data) IN
    IF ~d.ok THEN d
    ELSE LET vx == Shr(d.val, 1) IN
         IF d.val[4] % 2 = 0 THEN DecOk(vx, d.rest) ELSE DecOk(BitNot(vx), d.rest)

\* BytesEncoder::encode_compact_bytes: zigzag varint length, then the bytes
encode_compact_bytes(data) == encode_var_i64(Len(data)) \o data

\* bytes::decode_compact_bytes
decode_compact_bytes(data) ==
    LET d == decode_var_i64(data) IN
    IF ~d.ok THEN d
    ELSE IF U64LeNat(d.val, Len(d.rest))
         THEN LET vn == U64ToNat(d.val) IN
              DecOk(SubSeq(d.rest, 1, vn), Drop(d.rest, vn))
         ELSE DecErr("Codec:UnexpectedEof")

\* NumberEncoder::encode_u64: eight bytes, big-endian
encode_u64(v) ==
    [k \in 1..8 |-> IF k % 2 = 1 THEN v[(k + 1) \div 2] \div 256
                    ELSE v[k \div 2] % 256]

\* number::decode_u64
decode_u64(data) ==
    IF Len(data) < 8 THEN DecErr("Codec:UnexpectedEof")
    ELSE DecOk([i \in Limbs |-> data[2 * i - 1] * 256 + data[2 * i]], Drop(data, 8))

\* byteorder::ReadBytesExt::read_u8 on a slice
read_u8(data) ==
    IF data = <<>> THEN DecErr("Io:UnexpectedEof")
    ELSE DecOk(Head(data), Tail(data))

-----------------------------------------------------------------------------
(* LockType and its one-byte tags.                                         *)

LockTypes == {"Put", "Delete", "Lock", "Pessimistic"}

FLAG_PUT == 80
FLAG_DELETE == 68
FLAG_LOCK == 76
FLAG_PESSIMISTIC == 83

\* crate::storage extension tags
SHORT_VALUE_PREFIX == 118
FOR_UPDATE_TS_PREFIX == 102
TXN_SIZE_PREFIX == 116
MIN_COMMIT_TS_PREFIX == 99

\* from_u8 as it was before pessimistic locks had a tag of their own
from_u8_NoPessimistic(b) ==
    CASE b = FLAG_PUT -> Some("Put")
      [] b = FLAG_DELETE -> Some("Delete")
      [] b = FLAG_LOCK -> Some("Lock")
      [] OTHER -> None

\* LockType::from_u8
from_u8(b) ==
    CASE b = FLAG_PUT -> Some("Put")
      [] b = FLAG_DELETE -> Some("Delete")
      [] b = FLAG_LOCK -> Some("Lock")
      [] b = FLAG_PESSIMISTIC -> Some("Pessimistic")
      [] OTHER -> None

\* LockType::to_u8
to_u8(t) ==
    CASE t = "Put" -> FLAG_PUT
      [] t = "Delete" -> FLAG_DELETE
      [] t = "Lock" -> FLAG_LOCK
      [] t = "Pessimistic" -> FLAG_PESSIMISTIC

-----------------------------------------------------------------------------
(* Lock.                                                                   *)

\* Lock::new
Lock_new(lock_type, primary, ts, ttl, short_value, for_update_ts, txn_size, min_commit_ts) ==
    [lock_type |-> lock_type, primary |-> primary, ts |-> ts, ttl |-> ttl,
     short_value |-> short_value, for_update_ts |-> for_update_ts,
     txn_size |-> txn_size, min_commit_ts |-> min_commit_ts]

\* outcomes of Lock::parse: Ok(lock), Err(e), or the panic of lines 146 and 158
OkRes(l) == [kind |-> "Ok", lock |-> l]
ErrRes(e) == [kind |-> "Err", err |-> e]
PanicRes == [kind |-> "Panic"]
\* parse has not been called
NoRes == [kind |-> "None"]

\* the short-value extension, skipped for an empty value as if it were None
ShortValueExt_SkipEmpty(l) ==
    IF l.short_value.some /\ l.short_value.val # <<>>
    THEN <<SHORT_VALUE_PREFIX, Len(l.short_value.val) % 256>> \o l.short_value.val
    ELSE <<>>

\* to_bytes, lines 100-104: the short-value extension; the length is cast to u8
ShortValueExt(l) ==
    IF l.short_value.some
    THEN <<SHORT_VALUE_PREFIX, Len(l.short_value.val) % 256>> \o l.short_value.val
    ELSE <<>>

\* to_bytes, lines 105-108
ForUpdateTsExt(l) ==
    IF U64Gt(l.for_update_ts, U64Zero)
    THEN <<FOR_UPDATE_TS_PREFIX>> \o encode_u64(l.for_update_ts)
    ELSE <<>>

\* the txn_size extension, written whether or not txn_size is zero
TxnSizeExt_Always(l) == <<TXN_SIZE_PREFIX>> \o encode_u64(l.txn_size)

\* to_bytes, lines 109-112
TxnSizeExt(l) ==
    IF U64Gt(l.txn_size, U64Zero)
    THEN <<TXN_SIZE_PREFIX>> \o encode_u64(l.txn_size)
    ELSE <<>>

\* the min_commit_ts extension, written under the txn_size tag
MinCommitTsExt_WrongTag(l) ==
    IF U64Gt(l.min_commit_ts, U64Zero)
    THEN <<TXN_SIZE_PREFIX>> \o encode_u64(l.min_commit_ts)
    ELSE <<>>

\* to_bytes, lines 113-116
MinCommitTsExt(l) ==
    IF U64Gt(l.min_commit_ts, U64Zero)
    THEN <<MIN_COMMIT_TS_PREFIX>> \o encode_u64(l.min_commit_ts)
    ELSE <<>>

\* to_bytes, lines 96-99: tag, primary, ts, ttl
FixedPrefix(l) ==
    <<to_u8(l.lock_type)>> \o encode_compact_bytes(l.primary)
        \o encode_var_u64(l.ts) \o encode_var_u64(l.ttl)

\* Lock::to_bytes
to_bytes(l) ==
    FixedPrefix(l) \o ShortValueExt(l) \o ForUpdateTsExt(l) \o TxnSizeExt(l)
        \o MinCommitTsExt(l)

\* the short-value extension, a length beyond the buffer clamped to what is
\* left instead of panicking
ParseShortValue_Clamped(b, acc) ==
    LET len == read_u8(b) IN
    IF ~len.ok THEN [kind |-> "Err", err |-> len.err, rest |-> <<>>, acc |-> acc]
    ELSE LET n == Min(len.val, Len(len.rest)) IN
         [kind |-> "Ok", err |-> "", rest |-> Drop(len.rest, n),
          acc |-> [acc EXCEPT !.short_value = Some(SubSeq(len.rest, 1, n))]]

\* parse, lines 143-154: the short-value extension
ParseShortValue(b, acc) ==
    LET len == read_u8(b) IN
    IF ~len.ok THEN [kind |-> "Err", err |-> len.err, rest |-> <<>>, acc |-> acc]
    ELSE IF Len(len.rest) < len.val
         THEN [kind |-> "Panic", err |-> "", rest |-> <<>>, acc |-> acc]
         ELSE [kind |-> "Ok", err |-> "", rest |-> Drop(len.rest, len.val),
               acc |-> [acc EXCEPT !.short_value = Some(SubSeq(len.rest, 1, len.val))]]

\* parse, lines 155-157: one fixed-width extension stored into `field`
ParseU64Ext(b, acc, field) ==
    LET d == decode_u64(b) IN
    IF ~d.ok THEN [kind |-> "Err", err |-> d.err, rest |-> <<>>, acc |-> acc]
    ELSE [kind |-> "Ok", err |-> "", rest |-> d.rest,
          acc |-> [acc EXCEPT ![field] = d.val]]

\* one iteration of the extension loop that stops reading after
\* min_commit_ts, the extension to_bytes writes last
ParseExtension_MinCommitTsLast(b, acc) ==
    LET flag == Head(b)
        r == Tail(b)
    IN CASE flag = SHORT_VALUE_PREFIX -> ParseShortValue(r, acc)
         [] flag = FOR_UPDATE_TS_PREFIX -> ParseU64Ext(r, acc, "for_update_ts")
         [] flag = TXN_SIZE_PREFIX -> ParseU64Ext(r, acc, "txn_size")
         [] flag = MIN_COMMIT_TS_PREFIX ->
               [ParseU64Ext(r, acc, "min_commit_ts") EXCEPT !.rest = <<>>]
         [] OTHER -> [kind |-> "Panic", err |-> "", rest |-> <<>>, acc |-> acc]

\* parse, lines 142-159: one iteration of the extension loop on a non-empty b
ParseExtension(b, acc) ==
    LET flag == Head(b)
        r == Tail(b)
    IN CASE flag = SHORT_VALUE_PREFIX -> ParseShortValue(r, acc)
         [] flag = FOR_UPDATE_TS_PREFIX -> ParseU64Ext(r, acc, "for_update_ts")
         [] flag = TXN_SIZE_PREFIX -> ParseU64Ext(r, acc, "txn_size")
         [] flag = MIN_COMMIT_TS_PREFIX -> ParseU64Ext(r, acc, "min_commit_ts")
         [] OTHER -> [kind |-> "Panic", err |-> "", rest |-> <<>>, acc |-> acc]

RECURSIVE ParseExtensions(_, _)
\* parse, lines 141-170: the loop over the tagged extensions
ParseExtensions(b, acc) ==
    IF b = <<>> THEN OkRes(acc)
    ELSE LET step == ParseExtension(b, acc) IN
         CASE step.kind = "Ok" -> ParseExtensions(step.rest, step.acc)
           [] step.kind = "Err" -> ErrRes(step.err)
           [] OTHER -> PanicRes

\* ttl decoded unconditionally: no legacy format
ParseTtl_Required(b) == decode_var_u64(b)

\* parse, lines 127-131: ttl is optional, absent in the legacy format
ParseTtl(b) ==
    IF b = <<>> THEN DecOk(U64Zero, <<>>) ELSE decode_var_u64(b)

\* Lock::parse
parse(b) ==
    IF b = <<>> THEN ErrRes("BadFormatLock")
    ELSE
    LET lock_type == from_u8(Head(b)) IN
    IF ~lock_type.some THEN ErrRes("BadFormatLock")
    ELSE
    LET primary == decode_compact_bytes(Tail(b)) IN
    IF ~primary.ok THEN ErrRes(primary.err)
    ELSE
    LET ts == decode_var_u64(primary.rest) IN
    IF ~ts.ok THEN ErrRes(ts.err)
    ELSE
    LET ttl == ParseTtl(ts.rest) IN
    IF ~ttl.ok THEN ErrRes(ttl.err)
    ELSE
    LET base == Lock_new(lock_type.val, primary.val, ts.val, ttl.val, None,
                         U64Zero, U64Zero, U64Zero)
    IN IF ttl.rest = <<>> THEN OkRes(base)
       ELSE ParseExtensions(ttl.rest, base)


-----------------------------------------------------------------------------
(* Inputs of the codec: the locks, extension orders and damaged buffers    *)
(* the operations are run on.                                              *)

\* a byte pattern with tag bytes, 0x00, 0x80 and 0xff in it
BytePattern == <<118, 107, 255, 102, 128, 0, 112, 116, 99, 1>>

\* the first n bytes of the pattern, repeated as needed
PatternBytes(n) == [i \in 1..n |-> BytePattern[((i - 1) % Len(BytePattern)) + 1]]

Primaries == {PatternBytes(n) : n \in 0..MaxPrimaryLen}

ShortValues == {None} \cup {Some(PatternBytes(n)) : n \in 0..MaxShortValueLen}

\* the regular inputs: every combination of a few values per field
CoreLocks ==
    {Lock_new(t, p, ts, ttl, sv, fut, sz, mct) :
        t \in LockTypes, p \in Primaries,
        ts \in {U64(1), U64(300)}, ttl \in {U64Zero, U64(200)},
        sv \in ShortValues,
        fut \in {U64Zero, U64(10)}, sz \in {U64Zero, U64(16)},
        mct \in {U64Zero, U64Bit(40)}}

\* inputs at the edges of the format: the tests' largest lock, a primary whose
\* length needs a two-byte varint, ten-byte varints, and short values around
\* the one-byte length limit
BoundaryLocks ==
    { Lock_new("Put", PatternBytes(6), U64(111), U64(222), None, U64(333),
               U64(444), U64(555)),
      Lock_new("Delete", PatternBytes(64), U64(1), U64(10), Some(PatternBytes(11)),
               U64Zero, U64Zero, U64Zero),
      Lock_new("Pessimistic", PatternBytes(2), U64Max, U64Max, None, U64Max,
               U64Max, U64Max),
      Lock_new("Lock", <<>>, U64Zero, U64Bit(63), Some(<<>>), U64Zero, U64Bit(63),
               U64Zero),
      Lock_new("Put", PatternBytes(2), U64(1), U64(10), Some(PatternBytes(255)),
               U64Zero, U64(16), U64Zero),
      Lock_new("Put", PatternBytes(2), U64(1), U64(10), Some(PatternBytes(256)),
               U64Zero, U64(16), U64Zero),
      Lock_new("Delete", PatternBytes(2), U64(1), U64(10),
               Some([i \in 1..256 |-> 120]), U64(10), U64Zero, U64Zero) }

Locks == CoreLocks \cup BoundaryLocks

\* where the ts field and the ttl field end in to_bytes(l)
TsEnd(l) == 1 + Len(encode_compact_bytes(l.primary)) + Len(encode_var_u64(l.ts))
TtlEnd(l) == TsEnd(l) + Len(encode_var_u64(l.ttl))

ExtKinds == {"short_value", "for_update_ts", "txn_size", "min_commit_ts"}

\* one well-formed extension on the wire, carrying l's value of that field
\* (an explicit zero included)
WireExt(l, kind) ==
    CASE kind = "short_value" ->
            <<SHORT_VALUE_PREFIX, Len(l.short_value.val)>> \o l.short_value.val
      [] kind = "for_update_ts" -> <<FOR_UPDATE_TS_PREFIX>> \o encode_u64(l.for_update_ts)
      [] kind = "txn_size" -> <<TXN_SIZE_PREFIX>> \o encode_u64(l.txn_size)
      [] kind = "min_commit_ts" -> <<MIN_COMMIT_TS_PREFIX>> \o encode_u64(l.min_commit_ts)

RECURSIVE ExtStream(_, _)
ExtStream(l, order) ==
    IF order = <<>> THEN <<>>
    ELSE WireExt(l, Head(order)) \o ExtStream(l, Tail(order))

\* the orders in which the extensions of `kinds` can be written, each once
Orders(kinds) ==
    {o \in [1..Cardinality(kinds) -> kinds] :
        \A i, j \in 1..Cardinality(kinds) : i # j => o[i] # o[j]}

\* l with every extension field outside `kinds` at its default
OnlyExts(l, kinds) ==
    [l EXCEPT
        !.short_value = IF "short_value" \in kinds THEN @ ELSE None,
        !.for_update_ts = IF "for_update_ts" \in kinds THEN @ ELSE U64Zero,
        !.txn_size = IF "txn_size" \in kinds THEN @ ELSE U64Zero,
        !.min_commit_ts = IF "min_commit_ts" \in kinds THEN @ ELSE U64Zero]

\* extension streams parse must reject as corrupt: an unknown tag (alone, or
\* followed by what would be a valid extension), and a short value whose
\* declared length exceeds what is left
CorruptTails ==
    { <<0>>, <<255>>, <<FLAG_PUT>>,
      <<120>> \o encode_u64(U64(7)),
      <<SHORT_VALUE_PREFIX, 1>>,
      <<SHORT_VALUE_PREFIX, 3, 1, 2>>,
      <<SHORT_VALUE_PREFIX, 255>> \o PatternBytes(254) }

\* extension streams that merely end too early
CutTails ==
    { <<SHORT_VALUE_PREFIX>>, <<FOR_UPDATE_TS_PREFIX>>,
      <<TXN_SIZE_PREFIX, 0, 0, 0>>,
      <<MIN_COMMIT_TS_PREFIX, 0, 0, 0, 0, 0, 0, 1>> }

\* further well-formed extensions a buffer can go on with, repeating a kind
\* the encoding may already hold
MoreExts ==
    { <<SHORT_VALUE_PREFIX, 1, 9>>,
      <<FOR_UPDATE_TS_PREFIX>> \o encode_u64(U64(77)),
      <<TXN_SIZE_PREFIX>> \o encode_u64(U64Zero) }

\* the encoder's precondition on short values: the length fits the length byte
ShortValueFits(l) == l.short_value.some => Len(l.short_value.val) <= 255

-----------------------------------------------------------------------------
(* The codec as a state machine: a lock is constructed, encoded, the bytes *)
(* possibly cut, rewritten or damaged on the way, and parsed.              *)

\* the conflict check and into_lock_info have not been called
NoKey == <<>>
NoInfo == [lock_type |-> "None"]
NoCheck == [kind |-> "None"]

ConflictIdle ==
    /\ key = NoKey
    /\ read_ts = U64Zero
    /\ bypass_locks = {}
    /\ cres = NoCheck
    /\ raw_key = <<>>
    /\ info = NoInfo

Init ==
    /\ lock \in Locks
    /\ buf = <<>>
    /\ origin = "new"
    /\ res = NoRes
    /\ ConflictIdle

\* v = lock.to_bytes()
ToBytes ==
    /\ origin = "new"
    /\ buf' = to_bytes(lock)
    /\ origin' = "to_bytes"
    /\ UNCHANGED <<lock, res, conflict_vars>>

\* the stored bytes are cut to a proper prefix ending within the fixed prefix
Truncate ==
    /\ origin = "to_bytes"
    /\ res = NoRes
    /\ \E n \in 0..Min(Len(buf) - 1, TtlEnd(lock)) :
          buf' = SubSeq(buf, 1, n)
    /\ origin' = "truncated"
    /\ UNCHANGED <<lock, res, conflict_vars>>

\* another writer's encoding of the lock: the fixed prefix, then the extensions
\* of a chosen subset of the fields in a chosen order
Reorder ==
    /\ origin = "new"
    /\ ShortValueFits(lock)
    /\ \E kinds \in SUBSET ExtKinds :
          /\ "short_value" \in kinds => lock.short_value.some
          /\ \E order \in Orders(kinds) :
                /\ lock' = OnlyExts(lock, kinds)
                /\ buf' = FixedPrefix(lock) \o ExtStream(lock, order)
    /\ origin' = "reordered"
    /\ UNCHANGED <<res, conflict_vars>>

\* one more well-formed extension follows the encoding
AppendExtension ==
    /\ origin = "to_bytes"
    /\ res = NoRes
    /\ ShortValueFits(lock)
    /\ \E ext \in MoreExts : buf' = buf \o ext
    /\ origin' = "extended"
    /\ UNCHANGED <<lock, res, conflict_vars>>

\* a corrupt extension follows the well-formed encoding
Corrupt ==
    /\ origin = "to_bytes"
    /\ res = NoRes
    /\ ShortValueFits(lock)
    /\ \E tail \in CorruptTails : buf' = buf \o tail
    /\ origin' = "corrupt"
    /\ UNCHANGED <<lock, res, conflict_vars>>

\* the encoding is followed by an extension that ends too early
CutExtension ==
    /\ origin = "to_bytes"
    /\ res = NoRes
    /\ ShortValueFits(lock)
    /\ \E tail \in CutTails : buf' = buf \o tail
    /\ origin' = "cut_extension"
    /\ UNCHANGED <<lock, res, conflict_vars>>

\* Lock::parse(&buf)
Parse ==
    /\ origin # "new"
    /\ res = NoRes
    /\ res' = parse(buf)
    /\ UNCHANGED <<lock, buf, origin, conflict_vars>>

\* the parsed lock is written back: to_bytes of the lock parse returned, which
\* either reproduces the bytes parsed ("reencoded") or not ("normalized")
Reencode ==
    /\ origin \in {"to_bytes", "truncated", "reordered", "extended"}
    /\ res.kind = "Ok"
    /\ lock' = res.lock
    /\ buf' = to_bytes(res.lock)
    /\ origin' = IF buf' = buf THEN "reencoded" ELSE "normalized"
    /\ res' = NoRes
    /\ UNCHANGED conflict_vars

Next ==
    \/ ToBytes
    \/ Truncate
    \/ Reorder
    \/ AppendExtension
    \/ Corrupt
    \/ CutExtension
    \/ Parse
    \/ Reencode

Spec == Init /\ [][Next]_vars


-----------------------------------------------------------------------------
(* Key and TsSet, the collaborators of the conflict check.                 *)

Zeros(n) == [i \in 1..n |-> 0]

RECURSIVE encode_bytes(_)
\* tikv_util::codec::bytes::encode_bytes, the memcomparable form Key::from_raw
\* stores: groups of 8 bytes, each followed by a marker 0xff - padding
encode_bytes(raw) ==
    IF Len(raw) >= 8
    THEN SubSeq(raw, 1, 8) \o <<255>> \o encode_bytes(Drop(raw, 8))
    ELSE raw \o Zeros(8 - Len(raw)) \o <<255 - (8 - Len(raw))>>

\* Key::from_raw
from_raw(raw) == encode_bytes(raw)

RECURSIVE DecodeGroups(_, _)
DecodeGroups(data, acc) ==
    IF Len(data) < 9 THEN DecErr("Codec:UnexpectedEof")
    ELSE LET pad == 255 - data[9] IN
         IF pad = 0 THEN DecodeGroups(Drop(data, 9), acc \o SubSeq(data, 1, 8))
         ELSE IF pad > 8 THEN DecErr("Codec:KeyPadding")
         ELSE IF \E i \in (9 - pad)..8 : data[i] # 0 THEN DecErr("Codec:KeyPadding")
         ELSE DecOk(acc \o SubSeq(data, 1, 8 - pad), Drop(data, 9))

\* Key::to_raw: decodes the memcomparable bytes, or fails
to_raw(k) == DecodeGroups(k, <<>>)

\* TsSet::contains
TsSet_contains(set, ts) == ts \in set

-----------------------------------------------------------------------------
(* The wire descriptor and the conflict check.                             *)

\* the descriptor with the ttl in the place of the lock's version
into_lock_info_TtlAsVersion(l, raw) ==
    [primary_lock |-> l.primary,
     lock_version |-> l.ttl,
     key |-> raw,
     lock_ttl |-> l.ttl,
     txn_size |-> l.txn_size,
     lock_type |-> CASE l.lock_type = "Put" -> "Put"
                     [] l.lock_type = "Delete" -> "Del"
                     [] l.lock_type = "Lock" -> "Lock"
                     [] l.lock_type = "Pessimistic" -> "PessimisticLock"]

\* Lock::into_lock_info
into_lock_info(l, raw) ==
    [primary_lock |-> l.primary,
     lock_version |-> l.ts,
     key |-> raw,
     lock_ttl |-> l.ttl,
     txn_size |-> l.txn_size,
     lock_type |-> CASE l.lock_type = "Put" -> "Put"
                     [] l.lock_type = "Delete" -> "Del"
                     [] l.lock_type = "Lock" -> "Lock"
                     [] l.lock_type = "Pessimistic" -> "PessimisticLock"]

\* outcomes of check_ts_conflict
CheckOk == [kind |-> "Ok"]
CheckErr(e) == [kind |-> "Err", err |-> e]
KeyIsLocked(i) == [kind |-> "KeyIsLocked", info |-> i]

\* the conflict check with rule 1 as lock.ts >= ts
check_ts_conflict_Ge(l, k, ts, bypass) ==
    IF \/ ~U64Gt(ts, l.ts)
       \/ l.lock_type = "Lock"
       \/ l.lock_type = "Pessimistic"
    THEN CheckOk
    ELSE IF TsSet_contains(bypass, l.ts) THEN CheckOk
    ELSE LET raw == to_raw(k) IN
         IF ~raw.ok THEN CheckErr(raw.err)
         ELSE IF ts = U64Max /\ raw.val = l.primary THEN CheckOk
         ELSE KeyIsLocked(into_lock_info(l, raw.val))

\* the conflict check with key.to_raw()? hoisted above rules 1-3
check_ts_conflict_EagerRaw(l, k, ts, bypass) ==
    LET raw == to_raw(k) IN
    IF ~raw.ok THEN CheckErr(raw.err)
    ELSE IF \/ U64Gt(l.ts, ts)
            \/ l.lock_type = "Lock"
            \/ l.lock_type = "Pessimistic"
    THEN CheckOk
    ELSE IF TsSet_contains(bypass, l.ts) THEN CheckOk
    ELSE IF ts = U64Max /\ raw.val = l.primary THEN CheckOk
    ELSE KeyIsLocked(into_lock_info(l, raw.val))

\* Lock::check_ts_conflict
check_ts_conflict(l, k, ts, bypass) ==
    IF \/ U64Gt(l.ts, ts)
       \/ l.lock_type = "Lock"
       \/ l.lock_type = "Pessimistic"
    THEN CheckOk
    ELSE IF TsSet_contains(bypass, l.ts) THEN CheckOk
    ELSE LET raw == to_raw(k) IN
         IF ~raw.ok THEN CheckErr(raw.err)
         ELSE IF ts = U64Max /\ raw.val = l.primary THEN CheckOk
         ELSE KeyIsLocked(into_lock_info(l, raw.val))

\* "foo", "bar", the empty key and a key of more than one group
RawKeys == { <<102, 111, 111>>, <<98, 97, 114>>, <<>>, PatternBytes(9) }

\* encoded keys: well-formed ones, one with a timestamp appended, and ones
\* to_raw rejects (too short, a marker out of range, non-zero padding)
Keys ==
    {from_raw(r) : r \in RawKeys}
    \cup { from_raw(<<102, 111, 111>>) \o encode_u64(U64(110)),
           <<>>,
           SubSeq(from_raw(<<102, 111, 111>>), 1, 5),
           <<102, 111, 111, 0, 0, 0, 0, 0, 0>>,
           <<102, 111, 111, 0, 0, 0, 0, 7, 250>> }

ConflictLocks ==
    {Lock_new(t, p, ts, U64(3), None, U64Zero, U64(1), U64Zero) :
        t \in LockTypes,
        p \in {<<>>, <<102, 111, 111>>, <<98, 97, 114>>},
        ts \in {U64(50), U64(100), U64(110), U64Max}}

ReadTimestamps == {U64(50), U64(100), U64(110), U64Bit(63), U64Max}

BypassSets == SUBSET {U64(99), U64(100), U64(110)}

InitConflict ==
    /\ lock \in ConflictLocks
    /\ buf = <<>>
    /\ origin = "new"
    /\ res = NoRes
    /\ ConflictIdle

\* lock.check_ts_conflict(&key, ts, &bypass_locks)
CheckTsConflict ==
    /\ cres = NoCheck
    /\ info = NoInfo
    /\ \E k \in Keys, ts \in ReadTimestamps, bp \in BypassSets :
          /\ key' = k
          /\ read_ts' = ts
          /\ bypass_locks' = bp
          /\ cres' = check_ts_conflict(lock, k, ts, bp)
    /\ UNCHANGED <<codec_vars, raw_key, info>>

\* lock.into_lock_info(raw_key)
IntoLockInfo ==
    /\ cres = NoCheck
    /\ info = NoInfo
    /\ \E r \in RawKeys :
          /\ raw_key' = r
          /\ info' = into_lock_info(lock, r)
    /\ UNCHANGED <<codec_vars, key, read_ts, bypass_locks, cres>>

NextConflict ==
    \/ CheckTsConflict
    \/ IntoLockInfo

SpecConflict == InitConflict /\ [][NextConflict]_vars

-----------------------------------------------------------------------------
(* The leading tag byte: parse on buffers whose first byte is arbitrary.   *)

TagLocks ==
    {Lock_new(t, PatternBytes(2), U64(1), U64(10), None, U64(10), U64Zero, U64Zero) :
        t \in LockTypes}

InitTag ==
    /\ lock \in TagLocks
    /\ buf = <<>>
    /\ origin = "new"
    /\ res = NoRes
    /\ ConflictIdle

\* a zero-length value is read from the lock slot
EmptyInput ==
    /\ origin = "new"
    /\ buf' = <<>>
    /\ origin' = "empty"
    /\ UNCHANGED <<lock, res, conflict_vars>>

\* the first byte of the encoding is replaced by an arbitrary byte; what
\* follows it is kept, dropped, or replaced by bytes no field decodes from
Retag ==
    /\ origin = "to_bytes"
    /\ res = NoRes
    /\ \E b \in 0..255, rest \in {Tail(buf), <<>>, <<255, 255>>} :
          buf' = <<b>> \o rest
    /\ origin' = "retagged"
    /\ UNCHANGED <<lock, res, conflict_vars>>

NextTag ==
    \/ ToBytes
    \/ EmptyInput
    \/ Retag
    \/ Parse

SpecTag == InitTag /\ [][NextTag]_vars


-----------------------------------------------------------------------------
(* Properties of the codec, checked under Spec.                            *)

Parsed == res # NoRes

\* C1, as stated: for every lock built with Lock::new, whatever its short
\* value, parse(to_bytes(L)) returns Ok(L).
C1_RoundTripAnyShortValue ==
    (origin = "to_bytes" /\ Parsed) => res = OkRes(lock)

\* C1, amended: for every lock built with Lock::new whose short value, when
\* present, is at most 255 bytes long (the most the one-byte length field of
\* the short-value extension can declare), parse(to_bytes(L)) returns Ok(L).
C1_RoundTrip ==
    (origin = "to_bytes" /\ Parsed /\ ShortValueFits(lock)) => res = OkRes(lock)

\* a lock with a 255-byte short value has been encoded, parsed and returned
C1_Witness ==
    /\ origin = "to_bytes"
    /\ lock.short_value.some
    /\ Len(lock.short_value.val) = 255
    /\ res = OkRes(lock)

\* the lock parse returns for a prefix ending at the end of ts: the legacy
\* format, ttl 0 and no extension
LegacyLock(l) == OnlyExts([l EXCEPT !.ttl = U64Zero], {})

\* C5, as stated: a proper prefix of an encoding that ends no later than the
\* end of the ttl field parses to Ok if and only if it ends exactly at the end
\* of ts (the result then being the lock without ttl and extensions); every
\* other such prefix is an error.
C5_OkOnlyAtTsEnd ==
    (origin = "truncated" /\ Parsed) =>
        /\ res.kind = "Ok" <=> Len(buf) = TsEnd(lock)
        /\ Len(buf) = TsEnd(lock) => res = OkRes(LegacyLock(lock))
        /\ Len(buf) # TsEnd(lock) => res.kind = "Err"

\* C5, amended: such a prefix parses to Ok if and only if it ends exactly at
\* the end of ts or exactly at the end of ttl.  At the end of ts the result has
\* the original lock_type, primary and ts, ttl 0 and no extension; at the end
\* of ttl (a proper prefix only when extensions follow) it has the original
\* ttl as well and no extension.  A prefix that is empty or ends inside the
\* primary, inside ts or inside ttl is a returned error, never a Lock.
C5_TruncationBoundary ==
    (origin = "truncated" /\ Parsed) =>
        /\ res.kind = "Ok" <=> Len(buf) \in {TsEnd(lock), TtlEnd(lock)}
        /\ Len(buf) = TsEnd(lock) => res = OkRes(LegacyLock(lock))
        /\ Len(buf) = TtlEnd(lock) => res = OkRes(OnlyExts(lock, {}))
        /\ Len(buf) \notin {TsEnd(lock), TtlEnd(lock)} => res.kind = "Err"

\* a lock with a non-zero ttl was cut right after ts and parsed with ttl 0
C5_Witness ==
    /\ origin = "truncated"
    /\ Len(buf) = TsEnd(lock)
    /\ lock.ttl # U64Zero
    /\ res.kind = "Ok"
    /\ res.lock.ttl = U64Zero

\* C6: when the extensions after a well-formed encoding continue with an
\* unknown tag, or with a short-value tag whose declared length exceeds the
\* bytes left, parse panics: it returns neither Ok nor an error.  An extension
\* that merely ends too early is a returned error instead.
C6_CorruptExtensionPanics ==
    /\ (origin = "corrupt" /\ Parsed) => res = PanicRes
    /\ (origin = "cut_extension" /\ Parsed) => res.kind = "Err"

\* parse panicked on a short value declaring one byte with none left
C6_Witness ==
    /\ origin = "corrupt"
    /\ Len(buf) >= 2
    /\ SubSeq(buf, Len(buf) - 1, Len(buf)) = <<SHORT_VALUE_PREFIX, 1>>
    /\ res = PanicRes

\* C7: whenever parse(b) returned Ok(L), parse(to_bytes(L)) returns Ok(L) too,
\* also when to_bytes(L) is not b.
C7_NormalizationIdempotent ==
    (origin \in {"reencoded", "normalized"} /\ Parsed) => res = OkRes(lock)

\* a lock parsed from bytes that to_bytes does not reproduce (here the legacy
\* form without ttl) was encoded again and parsed to the same lock
C7_Witness ==
    /\ origin = "normalized"
    /\ res = OkRes(lock)
    /\ lock.ttl = U64Zero
    /\ lock.short_value = None

IsZero(v) == v = U64Zero

\* C8: to_bytes writes the tag, the compact primary, varint ts and varint ttl
\* always (ttl also when 0), then the short value iff it is Some, then
\* for_update_ts, txn_size and min_commit_ts each iff it is non-zero, each
\* once, and nothing else.
C8_EncoderLayout ==
    origin = "to_bytes" =>
        LET pEnd == 1 + Len(encode_compact_bytes(lock.primary))
            tsEnd == pEnd + Len(encode_var_u64(lock.ts))
            ttlEnd == tsEnd + Len(encode_var_u64(lock.ttl))
            svEnd == ttlEnd + (IF lock.short_value.some
                               THEN 2 + Len(lock.short_value.val) ELSE 0)
            futEnd == svEnd + (IF IsZero(lock.for_update_ts) THEN 0 ELSE 9)
            szEnd == futEnd + (IF IsZero(lock.txn_size) THEN 0 ELSE 9)
            mctEnd == szEnd + (IF IsZero(lock.min_commit_ts) THEN 0 ELSE 9)
        IN /\ Len(buf) = mctEnd
           /\ from_u8(buf[1]) = Some(lock.lock_type)
           /\ decode_compact_bytes(SubSeq(buf, 2, pEnd)) = DecOk(lock.primary, <<>>)
           /\ decode_var_u64(SubSeq(buf, pEnd + 1, tsEnd)) = DecOk(lock.ts, <<>>)
           /\ decode_var_u64(SubSeq(buf, tsEnd + 1, ttlEnd)) = DecOk(lock.ttl, <<>>)
           /\ lock.short_value.some =>
                 /\ buf[ttlEnd + 1] = SHORT_VALUE_PREFIX
                 /\ buf[ttlEnd + 2] = Len(lock.short_value.val) % 256
                 /\ SubSeq(buf, ttlEnd + 3, svEnd) = lock.short_value.val
           /\ ~IsZero(lock.for_update_ts) =>
                 /\ buf[svEnd + 1] = FOR_UPDATE_TS_PREFIX
                 /\ decode_u64(SubSeq(buf, svEnd + 2, futEnd)).val = lock.for_update_ts
           /\ ~IsZero(lock.txn_size) =>
                 /\ buf[futEnd + 1] = TXN_SIZE_PREFIX
                 /\ decode_u64(SubSeq(buf, futEnd + 2, szEnd)).val = lock.txn_size
           /\ ~IsZero(lock.min_commit_ts) =>
                 /\ buf[szEnd + 1] = MIN_COMMIT_TS_PREFIX
                 /\ decode_u64(SubSeq(buf, szEnd + 2, mctEnd)).val = lock.min_commit_ts

\* a lock with ttl 0, a short value and only txn_size non-zero was encoded
C8_Witness ==
    /\ origin = "to_bytes"
    /\ IsZero(lock.ttl)
    /\ lock.short_value.some
    /\ IsZero(lock.for_update_ts)
    /\ ~IsZero(lock.txn_size)
    /\ IsZero(lock.min_commit_ts)

\* C9: the fixed prefix followed by well-formed extensions, each kind at most
\* once and in any order, parses to the lock that has the fields of the
\* extensions present and the defaults for the absent ones.
C9_OrderIndependent ==
    (origin = "reordered" /\ Parsed) => res = OkRes(lock)

\* all four extensions, min_commit_ts first and the short value last, parsed
\* to the lock
C9_Witness ==
    /\ origin = "reordered"
    /\ res = OkRes(lock)
    /\ lock.short_value.some
    /\ ~IsZero(lock.for_update_ts)
    /\ ~IsZero(lock.txn_size)
    /\ ~IsZero(lock.min_commit_ts)
    /\ buf[TtlEnd(lock) + 1] = MIN_COMMIT_TS_PREFIX
    /\ SubSeq(buf, Len(buf) - Len(lock.short_value.val) - 1, Len(buf))
          = WireExt(lock, "short_value")


-----------------------------------------------------------------------------
(* Properties of the leading tag, checked under SpecTag.                   *)

LockTypeTags == {FLAG_PUT, FLAG_DELETE, FLAG_LOCK, FLAG_PESSIMISTIC}

\* C4: parse returns BadFormatLock on the empty input and on every input
\* whose first byte is not 'P', 'D', 'L' or 'S', whatever follows that byte;
\* from_u8 is None exactly on those bytes, and from_u8(to_u8(v)) = Some(v).
C4_BadFormatOnUnknownTag ==
    /\ (origin = "empty" /\ Parsed) => res = ErrRes("BadFormatLock")
    /\ origin = "to_bytes" =>
          /\ buf[1] = to_u8(lock.lock_type)
          /\ from_u8(to_u8(lock.lock_type)) = Some(lock.lock_type)
    /\ origin = "retagged" =>
          /\ from_u8(buf[1]) = None <=> buf[1] \notin LockTypeTags
          /\ from_u8(buf[1]) # None => to_u8(from_u8(buf[1]).val) = buf[1]
    /\ (origin = "retagged" /\ Parsed) =>
          /\ buf[1] \notin LockTypeTags => res = ErrRes("BadFormatLock")
          /\ buf[1] \in LockTypeTags => res # ErrRes("BadFormatLock")
          /\ res.kind = "Ok" => to_u8(res.lock.lock_type) = buf[1]

\* parse returned BadFormatLock for a buffer that is a valid encoding except
\* for its first byte, lower-case 'p'
C4_Witness ==
    /\ origin = "retagged"
    /\ buf[1] = 112
    /\ Len(buf) > 3
    /\ res = ErrRes("BadFormatLock")

-----------------------------------------------------------------------------
(* Properties of the conflict check, checked under SpecConflict.           *)

Checked == cres # NoCheck

\* rules 1-3 of check_ts_conflict, which need no raw key
Rules1To3 ==
    \/ U64Gt(lock.ts, read_ts)
    \/ lock.lock_type \in {"Lock", "Pessimistic"}
    \/ lock.ts \in bypass_locks

\* rule 4: a read at u64::MAX of the lock's own primary key
Rule4 == read_ts = U64Max /\ to_raw(key).val = lock.primary

\* C2: when the key converts to its raw form, the check returns Ok iff
\* lock.ts > read_ts, or the lock is a Lock or Pessimistic lock, or the bypass
\* set contains lock.ts, or read_ts is u64::MAX and the raw key is the lock's
\* primary; in every other case it returns KeyIsLocked.
C2_ConflictRule ==
    (Checked /\ to_raw(key).ok) =>
        /\ cres = CheckOk <=> (Rules1To3 \/ Rule4)
        /\ ~(Rules1To3 \/ Rule4) => cres.kind = "KeyIsLocked"

\* the read of the tests at ts 110 with bypass set {110}: the set holds
\* read_ts but not lock.ts = 100, and the key is reported locked
C2_Witness ==
    /\ cres.kind = "KeyIsLocked"
    /\ read_ts = U64(110)
    /\ lock.ts = U64(100)
    /\ bypass_locks = {U64(110)}

LockInfoOp ==
    [Put |-> "Put", Delete |-> "Del", Lock |-> "Lock", Pessimistic |-> "PessimisticLock"]

\* the descriptor C3 describes, for the lock l and the raw key raw
Descriptor(l, raw) ==
    [primary_lock |-> l.primary, lock_version |-> l.ts, key |-> raw,
     lock_ttl |-> l.ttl, txn_size |-> l.txn_size, lock_type |-> LockInfoOp[l.lock_type]]

\* C3: a KeyIsLocked error carries primary_lock = lock.primary, lock_version =
\* lock.ts, key = the raw form of the key checked, lock_ttl = lock.ttl,
\* txn_size = lock.txn_size and the lock type as Put, Del, Lock or
\* PessimisticLock; into_lock_info yields these fields for every lock type
\* and raw key.
C3_KeyIsLockedDescriptor ==
    /\ cres.kind = "KeyIsLocked" => cres.info = Descriptor(lock, to_raw(key).val)
    /\ info # NoInfo => info = Descriptor(lock, raw_key)

\* a Delete lock conflicted on a key that carries a timestamp suffix: the
\* descriptor holds the raw key, not the encoded one
C3_Witness ==
    /\ cres.kind = "KeyIsLocked"
    /\ lock.lock_type = "Delete"
    /\ Len(key) > 9
    /\ cres.info.key = <<102, 111, 111>>
    /\ cres.info.lock_type = "Del"

\* C10: when key.to_raw() fails, the check still returns Ok if one of rules
\* 1-3 applies, and otherwise returns that key error, for every read_ts.
C10_KeyErrorPropagates ==
    (Checked /\ ~to_raw(key).ok) =>
        /\ Rules1To3 => cres = CheckOk
        /\ ~Rules1To3 => cres = CheckErr(to_raw(key).err)

\* a read below u64::MAX of a key with bad padding got the key error back
C10_Witness ==
    /\ cres = CheckErr("Codec:KeyPadding")
    /\ read_ts # U64Max
    /\ lock.lock_type = "Put"

=============================================================================
